---- MODULE Spec2Model ----
(***************************************************************************)
(* Model of common_sensor_launch/launch/nebula_node_container.launch.py.   *)
(*                                                                         *)
(* Python strings that the code slices, lower-cases or concatenates are    *)
(* sequences of one-character strings; fixed names that are only passed   *)
(* through (topic names, plugin names) are TLA+ strings.  Lengths are in   *)
(* units of 1/200 m, so that the division by 2.0 of get_vehicle_info is    *)
(* exact on the centimetre grid the inputs are drawn from (floating-point  *)
(* rounding is not modelled).                                              *)
(***************************************************************************)
EXTENDS Integers, Sequences, FiniteSets, TLC

(***************************************************************************)
(* String literals of the source.                                          *)
(***************************************************************************)
STR_pandar == <<"p", "a", "n", "d", "a", "r">>
STR_hdl == <<"h", "d", "l">>
STR_vlp == <<"v", "l", "p">>
STR_vls == <<"v", "l", "s">>
STR_Hesai == <<"H", "e", "s", "a", "i">>
STR_Velodyne == <<"V", "e", "l", "o", "d", "y", "n", "e">>
STR_csv == <<".", "c", "s", "v">>
STR_yaml == <<".", "y", "a", "m", "l">>
STR_dat == <<".", "d", "a", "t">>
STR_unrecognized == <<"u", "n", "r", "e", "c", "o", "g", "n", "i", "z", "e", "d", "_", "s", "e", "n", "s", "o", "r", "_", "m", "o", "d", "e", "l">>
STR_config == <<"c", "o", "n", "f", "i", "g">>
STR_calibration == <<"c", "a", "l", "i", "b", "r", "a", "t", "i", "o", "n">>
STR_BaseParams == <<"B", "a", "s", "e", "P", "a", "r", "a", "m", "s", ".", "y", "a", "m", "l">>

(***************************************************************************)
(* The environment: package share directories, the files a user may pass,  *)
(* and the sensor models the launch file is started with.                  *)
(***************************************************************************)
nebula_ros_share_dir == <<"/", "o", "p", "t", "/", "n", "e", "b", "u", "l", "a", "_", "r", "o", "s">>
nebula_decoders_share_dir == <<"/", "o", "p", "t", "/", "n", "e", "b", "u", "l", "a", "_", "d", "e", "c", "o", "d", "e", "r", "s">>
UserConfigFile == <<"/", "e", "t", "c", "/", "l", "i", "d", "a", "r", ".", "y", "a", "m", "l">>
UserCorrectionFile == <<"/", "e", "t", "c", "/", "l", "i", "d", "a", "r", ".", "d", "a", "t">>
MirrorParamFile == <<"/", "e", "t", "c", "/", "m", "i", "r", "r", "o", "r", ".", "y", "a", "m", "l">>
M_Pandar64 == <<"P", "a", "n", "d", "a", "r", "6", "4">>
M_VLP16 == <<"V", "L", "P", "1", "6">>
M_vls128 == <<"v", "l", "s", "1", "2", "8">>
M_OS1 == <<"O", "S", "1">>
M_pand == <<"p", "a", "n", "d">>
B_pandar64 == <<"p", "a", "n", "d", "a", "r", "6", "4">>
B_pandaxt == <<"p", "a", "n", "d", "a", "x", "t">>
B_vlp16 == <<"v", "l", "p", "1", "6">>
B_vls128 == <<"v", "l", "s", "1", "2", "8">>
B_hdl32 == <<"h", "d", "l", "3", "2">>
B_hdx == <<"h", "d", "x">>
B_os1 == <<"o", "s", "1">>
B_xpandar == <<"x", "p", "a", "n", "d", "a", "r">>
B_vlpandar == <<"v", "l", "p", "a", "n", "d", "a", "r">>
D_hesai == <<"h", "e", "s", "a", "i">>
D_velodyne == <<"v", "e", "l", "o", "d", "y", "n", "e">>
D_ouster == <<"o", "u", "s", "t", "e", "r">>
STR_json == <<".", "j", "s", "o", "n">>

\* Longest sensor model name the classifier is exercised with.
MaxModelLen == 7

(***************************************************************************)
(* str.lower(), slicing and os.path.join.                                  *)
(***************************************************************************)
LowerAlpha == <<"a", "b", "c", "d", "e", "f", "g", "h", "i", "j", "k", "l", "m", "n", "o", "p", "q", "r", "s", "t", "u", "v", "w", "x", "y", "z">>
UpperAlpha == <<"A", "B", "C", "D", "E", "F", "G", "H", "I", "J", "K", "L", "M", "N", "O", "P", "Q", "R", "S", "T", "U", "V", "W", "X", "Y", "Z">>

lower_char(c) ==
    IF \E i \in 1..26 : UpperAlpha[i] = c
    THEN LowerAlpha[CHOOSE i \in 1..26 : UpperAlpha[i] = c]
    ELSE c

upper_char(c) ==
    IF \E i \in 1..26 : LowerAlpha[i] = c
    THEN UpperAlpha[CHOOSE i \in 1..26 : LowerAlpha[i] = c]
    ELSE c

\* s.lower()
lower(s) == [i \in 1..Len(s) |-> lower_char(s[i])]

Min(a, b) == IF a < b THEN a ELSE b

\* s[:n]
Slice(s, n) == SubSeq(s, 1, Min(n, Len(s)))

\* posixpath.join(a, b)
os_path_join2(a, b) ==
    IF b # <<>> /\ b[1] = "/" THEN b
    ELSE IF a = <<>> \/ a[Len(a)] = "/" THEN a \o b
    ELSE a \o <<"/">> \o b

RECURSIVE os_path_join(_)
\* os.path.join(*parts)
os_path_join(parts) ==
    IF Len(parts) = 1 THEN parts[1]
    ELSE os_path_join(<<os_path_join2(parts[1], parts[2])>> \o SubSeq(parts, 3, Len(parts)))

(***************************************************************************)
(* get_lidar_make: a 2-tuple for a recognised prefix, otherwise one bare   *)
(* string.                                                                 *)
(***************************************************************************)
\* get_lidar_make comparing the prefix without lower()
get_lidar_make_case_sensitive(sensor_name) ==
    IF Slice(sensor_name, 6) = STR_pandar
    THEN [tuple |-> TRUE, items |-> <<STR_Hesai, STR_csv>>]
    ELSE IF Slice(sensor_name, 3) \in {STR_hdl, STR_vlp, STR_vls}
    THEN [tuple |-> TRUE, items |-> <<STR_Velodyne, STR_yaml>>]
    ELSE [tuple |-> FALSE, items |-> STR_unrecognized]

get_lidar_make(sensor_name) ==
    IF lower(Slice(sensor_name, 6)) = STR_pandar
    THEN [tuple |-> TRUE, items |-> <<STR_Hesai, STR_csv>>]
    ELSE IF lower(Slice(sensor_name, 3)) \in {STR_hdl, STR_vlp, STR_vls}
    THEN [tuple |-> TRUE, items |-> <<STR_Velodyne, STR_yaml>>]
    ELSE [tuple |-> FALSE, items |-> STR_unrecognized]

\* "a, b = value" succeeds iff the value iterates over exactly two items.
CanUnpack2(value) == Len(value.items) = 2


(***************************************************************************)
(* State.  launch_configurations, fs and mirror_yaml are the surroundings  *)
(* launch_setup reads; the rest are launch_setup's locals, its position    *)
(* (pc), the exception that ended it (error) and the value it returned     *)
(* (result).                                                               *)
(***************************************************************************)
VARIABLES launch_configurations, fs, mirror_yaml, pc, error, lidar_make,
          sensor_make, sensor_extension, sensor_params_fp, sensor_calib_fp,
          sensor_correction_fp, sensor_params, nodes, cropbox_parameters,
          vehicle_info, result

vars == <<launch_configurations, fs, mirror_yaml, pc, error, lidar_make,
          sensor_make, sensor_extension, sensor_params_fp, sensor_calib_fp,
          sensor_correction_fp, sensor_params, nodes, cropbox_parameters,
          vehicle_info, result>>

locals == <<lidar_make, sensor_make, sensor_extension, sensor_params_fp,
            sensor_calib_fp, sensor_correction_fp, sensor_params, nodes,
            cropbox_parameters, vehicle_info, result>>

surroundings == <<launch_configurations, fs, mirror_yaml>>

EmptyDict == [k \in {} |-> 0]

\* d[k] = v on a dict
DictSet(d, k, v) == [x \in DOMAIN d \cup {k} |-> IF x = k THEN v ELSE d[x]]

\* LaunchConfiguration(name): a substitution, resolved later against the context
LaunchConfiguration(name) == [LaunchConfiguration |-> name]

\* LaunchConfiguration(name).perform(context)
perform(name) == launch_configurations[name]

\* os.path.exists(path)
os_path_exists(path) == path \in fs

(***************************************************************************)
(* get_vehicle_info and get_vehicle_mirror_info.                           *)
(***************************************************************************)
VehicleKeys == {"front_overhang", "rear_overhang", "wheel_base", "wheel_tread",
                "left_overhang", "right_overhang", "vehicle_height"}

\* the dict get_vehicle_info reads: "ros_params", or "global_params" when that is empty
vehicle_gp(context) ==
    IF DOMAIN context["ros_params"] # {} THEN context["ros_params"]
    ELSE context["global_params"]

\* x / 2.0
Half(x) == x \div 2

\* get_vehicle_info with the lateral overhangs exchanged
get_vehicle_info_swapped(context) ==
    LET gp == vehicle_gp(context) IN
    IF ~(VehicleKeys \subseteq DOMAIN gp) THEN [raises |-> "KeyError", p |-> EmptyDict]
    ELSE [raises |-> "",
          p |-> [vehicle_length |-> gp["front_overhang"] + gp["wheel_base"] + gp["rear_overhang"],
                 vehicle_width |-> gp["wheel_tread"] + gp["left_overhang"] + gp["right_overhang"],
                 min_longitudinal_offset |-> -gp["rear_overhang"],
                 max_longitudinal_offset |-> gp["front_overhang"] + gp["wheel_base"],
                 min_lateral_offset |-> -(Half(gp["wheel_tread"]) + gp["left_overhang"]),
                 max_lateral_offset |-> Half(gp["wheel_tread"]) + gp["right_overhang"],
                 min_height_offset |-> 0,
                 max_height_offset |-> gp["vehicle_height"]]]

get_vehicle_info(context) ==
    LET gp == vehicle_gp(context) IN
    IF ~(VehicleKeys \subseteq DOMAIN gp) THEN [raises |-> "KeyError", p |-> EmptyDict]
    ELSE [raises |-> "",
          p |-> [vehicle_length |-> gp["front_overhang"] + gp["wheel_base"] + gp["rear_overhang"],
                 vehicle_width |-> gp["wheel_tread"] + gp["left_overhang"] + gp["right_overhang"],
                 min_longitudinal_offset |-> -gp["rear_overhang"],
                 max_longitudinal_offset |-> gp["front_overhang"] + gp["wheel_base"],
                 min_lateral_offset |-> -(Half(gp["wheel_tread"]) + gp["right_overhang"]),
                 max_lateral_offset |-> Half(gp["wheel_tread"]) + gp["left_overhang"],
                 min_height_offset |-> 0,
                 max_height_offset |-> gp["vehicle_height"]]]

get_vehicle_mirror_info(context) ==
    LET path == context["vehicle_mirror_param_file"] IN
    IF ~os_path_exists(path) THEN [raises |-> "FileNotFoundError", p |-> EmptyDict]
    ELSE [raises |-> "", p |-> mirror_yaml["/**"]["ros__parameters"]]

(***************************************************************************)
(* File resolution of launch_setup.                                        *)
(***************************************************************************)
\* params_candidate that tries the model default whatever config_file is
params_candidate_default_only(config_file, make, model) ==
    os_path_join(<<nebula_ros_share_dir, STR_config, lower(make), model \o STR_yaml>>)

\* config_file, or the model default when it is empty
params_candidate(config_file, make, model) ==
    IF config_file = <<>>
    THEN os_path_join(<<nebula_ros_share_dir, STR_config, lower(make), model \o STR_yaml>>)
    ELSE config_file

calib_path(make, model, extension) ==
    os_path_join(<<nebula_decoders_share_dir, STR_calibration, lower(make), model \o extension>>)

\* sensor_correction_file, or the model default when it is empty
correction_candidate(correction_file, make, model) ==
    IF correction_file = <<>>
    THEN os_path_join(<<nebula_decoders_share_dir, STR_calibration, lower(make), model \o STR_dat>>)
    ELSE correction_file

base_params_path == os_path_join(<<nebula_ros_share_dir, STR_config, STR_BaseParams>>)

\* resolve_correction without the existence test
resolve_correction_unchecked(candidate) == candidate

resolve_correction(candidate) == IF ~os_path_exists(candidate) THEN <<>> ELSE candidate

\* resolve_params without the fall-back to BaseParams.yaml
resolve_params_no_fallback(candidate) == candidate

resolve_params(candidate) == IF ~os_path_exists(candidate) THEN base_params_path ELSE candidate

\* the asserts without the one on the calibration file
assert_params_only(params_fp, calib_fp) ==
    IF ~os_path_exists(params_fp) THEN "AssertionError: params" ELSE ""

\* the two asserts: the exception the first failing one raises, "" when both pass
assert_mandatory_files(params_fp, calib_fp) ==
    IF ~os_path_exists(params_fp) THEN "AssertionError: params"
    ELSE IF ~os_path_exists(calib_fp) THEN "AssertionError: calib"
    ELSE ""

\* yaml.safe_load of a sensor params file; its contents are opaque here
safe_load_params(path) == ("/**" :> ("ros__parameters" :> [loaded_from |-> path]))


(***************************************************************************)
(* Node descriptions and launch actions.                                   *)
(***************************************************************************)
create_parameter_dict(args) == [x \in args |-> LaunchConfiguration(x)]

\* a node description that keeps the caller's dict instead of a copy
normalize_parameter_dict_alias(d, ref) == [ref |-> ref, val |-> d]

\* launch_ros normalises a parameter dict when the ComposableNode is
\* constructed: the node keeps its own copy (ref = ""), not the caller's dict.
normalize_parameter_dict(d, ref) == [ref |-> "", val |-> d]

\* the parameter dict a node description holds, as seen in the current state
parameters_of(node, i) ==
    IF node.parameters[i].ref = "" THEN node.parameters[i].val ELSE cropbox_parameters

ComposableNode(package, plugin, name, remappings, parameters) ==
    [package |-> package, plugin |-> plugin, name |-> name,
     remappings |-> remappings, parameters |-> parameters,
     extra_arguments |-> <<[use_intra_process_comms |-> LaunchConfiguration("use_intra_process")]>>]

\* sensor_make + suffix (the suffix is kept apart, as a fixed name)
StrCat(s, suffix) == [head |-> s, tail |-> suffix]

driver_node(make, params, calib_fp, correction_fp, model) ==
    ComposableNode("nebula_ros",
                   StrCat(make, "DriverRosWrapper"),
                   StrCat(lower(make), "_driver_ros_wrapper_node"),
                   <<<<"aw_points", "pointcloud_raw">>, <<"aw_points_ex", "pointcloud_raw_ex">>>>,
                   <<normalize_parameter_dict(params, ""),
                     normalize_parameter_dict(
                        ("calibration_file" :> calib_fp) @@ ("correction_file" :> correction_fp)
                        @@ ("sensor_model" :> model)
                        @@ create_parameter_dict({"return_mode", "min_range", "max_range", "frame_id",
                                                  "scan_phase", "cloud_min_angle", "cloud_max_angle",
                                                  "dual_return_distance_threshold"}), "")>>)

\* cropbox_initial keeping the points inside the box
cropbox_initial_positive == DictSet(create_parameter_dict({"input_frame", "output_frame"}), "negative", FALSE)

cropbox_initial == DictSet(create_parameter_dict({"input_frame", "output_frame"}), "negative", TRUE)

\* cropbox_parameters["min_x"] = info["min_longitudinal_offset"], and so on
set_crop_bounds(d, info) ==
    LET d1 == DictSet(d, "min_x", info["min_longitudinal_offset"])
        d2 == DictSet(d1, "max_x", info["max_longitudinal_offset"])
        d3 == DictSet(d2, "min_y", info["min_lateral_offset"])
        d4 == DictSet(d3, "max_y", info["max_lateral_offset"])
        d5 == DictSet(d4, "min_z", info["min_height_offset"])
    IN  DictSet(d5, "max_z", info["max_height_offset"])

self_crop_node(d) ==
    ComposableNode("pointcloud_preprocessor",
                   "pointcloud_preprocessor::CropBoxFilterComponent",
                   "crop_box_filter_self",
                   <<<<"input", "pointcloud_raw_ex">>, <<"output", "self_cropped/pointcloud_ex">>>>,
                   <<normalize_parameter_dict(d, "cropbox_parameters")>>)

\* mirror_crop_node reading the raw cloud instead of the self-cropped one
mirror_crop_node_raw_input(d) ==
    ComposableNode("pointcloud_preprocessor",
                   "pointcloud_preprocessor::CropBoxFilterComponent",
                   "crop_box_filter_mirror",
                   <<<<"input", "pointcloud_raw_ex">>, <<"output", "mirror_cropped/pointcloud_ex">>>>,
                   <<normalize_parameter_dict(d, "cropbox_parameters")>>)

mirror_crop_node(d) ==
    ComposableNode("pointcloud_preprocessor",
                   "pointcloud_preprocessor::CropBoxFilterComponent",
                   "crop_box_filter_mirror",
                   <<<<"input", "self_cropped/pointcloud_ex">>, <<"output", "mirror_cropped/pointcloud_ex">>>>,
                   <<normalize_parameter_dict(d, "cropbox_parameters")>>)

distortion_corrector_node ==
    ComposableNode("pointcloud_preprocessor",
                   "pointcloud_preprocessor::DistortionCorrectorComponent",
                   "distortion_corrector_node",
                   <<<<"~/input/twist", "/sensing/vehicle_velocity_converter/twist_with_covariance">>,
                     <<"~/input/imu", "/sensing/imu/imu_data">>,
                     <<"~/input/pointcloud", "mirror_cropped/pointcloud_ex">>,
                     <<"~/output/pointcloud", "rectified/pointcloud_ex">>>>,
                   <<>>)

ring_outlier_filter_node ==
    ComposableNode("pointcloud_preprocessor",
                   "pointcloud_preprocessor::RingOutlierFilterComponent",
                   "ring_outlier_filter",
                   <<<<"input", "rectified/pointcloud_ex">>, <<"output", "outlier_filtered/pointcloud">>>>,
                   <<>>)

driver_component(make, model, calib_fp) ==
    ComposableNode("nebula_ros",
                   StrCat(make, "HwInterfaceRosWrapper"),
                   StrCat(lower(make), "_hw_interface_ros_wrapper_node"),
                   <<>>,
                   <<normalize_parameter_dict(
                        ("sensor_model" :> model) @@ ("calibration_file" :> calib_fp)
                        @@ create_parameter_dict({"sensor_ip", "host_ip", "scan_phase", "return_mode",
                                                  "frame_id", "rotation_speed", "data_port", "gnss_port",
                                                  "cloud_min_angle", "cloud_max_angle"}), "")>>)

\* launch.conditions: the text of a boolean launch argument
evaluate_condition_expression(text) == text \in {"true", "True", "1"}

IfCondition(name) == [negate |-> FALSE, expression |-> LaunchConfiguration(name)]

UnlessCondition(name) == [negate |-> TRUE, expression |-> LaunchConfiguration(name)]

\* condition.evaluate(context)
evaluate(condition, context) ==
    LET v == evaluate_condition_expression(context[condition.expression.LaunchConfiguration])
    IN  IF condition.negate THEN ~v ELSE v

\* container_action started under the loader's condition
container_action_if(node_list) ==
    [action |-> "ComposableNodeContainer",
     name |-> LaunchConfiguration("container_name"),
     namespace |-> "pointcloud_preprocessor",
     executable |-> LaunchConfiguration("container_executable"),
     composable_node_descriptions |-> node_list,
     condition |-> IfCondition("use_pointcloud_container")]

container_action(node_list) ==
    [action |-> "ComposableNodeContainer",
     name |-> LaunchConfiguration("container_name"),
     namespace |-> "pointcloud_preprocessor",
     executable |-> LaunchConfiguration("container_executable"),
     composable_node_descriptions |-> node_list,
     condition |-> UnlessCondition("use_pointcloud_container")]

component_loader_action(node_list) ==
    [action |-> "LoadComposableNodes",
     composable_node_descriptions |-> node_list,
     target_container |-> [object |-> "", substitution |-> LaunchConfiguration("container_name")],
     condition |-> IfCondition("use_pointcloud_container")]

\* container if UnlessCondition(...).evaluate(context) else LaunchConfiguration("container_name")
target_container(context) ==
    IF evaluate(UnlessCondition("use_pointcloud_container"), context)
    THEN [object |-> "container", substitution |-> LaunchConfiguration("")]
    ELSE [object |-> "", substitution |-> LaunchConfiguration("container_name")]

driver_component_loader_action(component, context) ==
    [action |-> "LoadComposableNodes",
     composable_node_descriptions |-> <<component>>,
     target_container |-> target_container(context),
     condition |-> IfCondition("launch_driver")]


(***************************************************************************)
(* The inputs the model is run on.                                         *)
(***************************************************************************)
LaunchModels == {M_Pandar64, M_VLP16, M_vls128, M_OS1, M_pand}

\* What an installation ships per model: <<model, vendor directory, calibration extension>>
Catalog == {<<M_Pandar64, D_hesai, STR_csv>>, <<M_VLP16, D_velodyne, STR_yaml>>,
            <<M_vls128, D_velodyne, STR_yaml>>, <<M_OS1, D_ouster, STR_json>>,
            <<M_pand, D_hesai, STR_csv>>}

Slash == <<"/">>

ModelParamsFile(e) == nebula_ros_share_dir \o Slash \o STR_config \o Slash \o e[2] \o Slash \o e[1] \o STR_yaml

ModelCalibFile(e) == nebula_decoders_share_dir \o Slash \o STR_calibration \o Slash \o e[2] \o Slash \o e[1] \o e[3]

ModelCorrectionFile(e) == nebula_decoders_share_dir \o Slash \o STR_calibration \o Slash \o e[2] \o Slash \o e[1] \o STR_dat

BaseParamsFile == nebula_ros_share_dir \o Slash \o STR_config \o Slash \o STR_BaseParams

CatalogEntry(model) == CHOOSE e \in Catalog : e[1] = model

ModelFiles(model) ==
    LET e == CatalogEntry(model) IN {ModelParamsFile(e), ModelCalibFile(e), ModelCorrectionFile(e)}

CommonFiles == {UserConfigFile, UserCorrectionFile, MirrorParamFile, BaseParamsFile}

FileSystems(model) == {a \cup b : a \in SUBSET CommonFiles, b \in SUBSET ModelFiles(model)}

Dims(fo, ro, wb, wt, lo, rgt, vh) ==
    [front_overhang |-> fo, rear_overhang |-> ro, wheel_base |-> wb, wheel_tread |-> wt,
     left_overhang |-> lo, right_overhang |-> rgt, vehicle_height |-> vh]

\* front 0.5, rear 0.5, wheel base 2.5, wheel tread 1.5, left 0.2, right 0.2, height 1.8 (m)
DimsA == Dims(100, 100, 500, 300, 40, 40, 360)

DimsB == Dims(180, 220, 550, 310, 30, 50, 500)

\* a parameter dict without vehicle_height
DimsPartial == [front_overhang |-> 100, rear_overhang |-> 100, wheel_base |-> 500,
                wheel_tread |-> 300, left_overhang |-> 40, right_overhang |-> 40]

DimsGrid == {Dims(fo, ro, wb, wt, lo, rgt, vh) :
                fo \in {100, 180}, ro \in {100, 220}, wb \in {500, 550}, wt \in {300, 310},
                lo \in {40, 30}, rgt \in {40, 50}, vh \in {360, 500}}

Offsets(a, b, c, d, e, f) ==
    [min_longitudinal_offset |-> a, max_longitudinal_offset |-> b, min_lateral_offset |-> c,
     max_lateral_offset |-> d, min_height_offset |-> e, max_height_offset |-> f]

MirrorA == Offsets(300, 340, -230, 230, 260, 320)

MirrorB == Offsets(280, 330, -250, 240, 240, 300)

Yaml(p) == ("/**" :> ("ros__parameters" :> p))

MirrorYamls(files) == IF MirrorParamFile \in files THEN {Yaml(MirrorA), Yaml(MirrorB)} ELSE {Yaml(EmptyDict)}

Context(model, cfg, corr, ld, upc, rp, gparams) ==
    [sensor_model |-> model, config_file |-> cfg, sensor_correction_file |-> corr,
     launch_driver |-> ld, use_pointcloud_container |-> upc,
     ros_params |-> rp, global_params |-> gparams,
     vehicle_mirror_param_file |-> MirrorParamFile,
     container_name |-> "nebula_node_container"]

RECURSIVE CaseVariants(_)
\* every upper/lower-case spelling of s
CaseVariants(s) ==
    IF s = <<>> THEN {<<>>}
    ELSE {<<c>> \o t : c \in {Head(s), upper_char(Head(s))}, t \in CaseVariants(Tail(s))}

BaseNames == {B_pandar64, B_pandaxt, B_vlp16, B_vls128, B_hdl32, B_hdx, B_os1, B_xpandar, B_vlpandar}

\* every spelling of every prefix (up to MaxModelLen characters) of a base name
SensorModels ==
    UNION {CaseVariants(Slice(b, n)) : b \in BaseNames, n \in 0..MaxModelLen}

LocalsInit ==
    /\ lidar_make = [tuple |-> FALSE, items |-> <<>>]
    /\ sensor_make = <<>>
    /\ sensor_extension = <<>>
    /\ sensor_params_fp = <<>>
    /\ sensor_calib_fp = <<>>
    /\ sensor_correction_fp = <<>>
    /\ sensor_params = EmptyDict
    /\ nodes = <<>>
    /\ cropbox_parameters = EmptyDict
    /\ vehicle_info = EmptyDict
    /\ result = <<>>

Init ==
    /\ \E model \in LaunchModels, cfg \in {<<>>, UserConfigFile}, corr \in {<<>>, UserCorrectionFile},
          ld \in {"True", "false"}, upc \in {"false", "true"},
          rp \in {EmptyDict, DimsA}, gparams \in {EmptyDict, DimsB} :
            /\ launch_configurations = Context(model, cfg, corr, ld, upc, rp, gparams)
            /\ fs \in FileSystems(model)
    /\ mirror_yaml \in MirrorYamls(fs)
    /\ pc = "classify"
    /\ error = ""
    /\ LocalsInit

(***************************************************************************)
(* launch_setup, one action per stretch of its body.                       *)
(***************************************************************************)
\* lines 73-76: classify the model and unpack the result
Classify ==
    /\ pc = "classify"
    /\ LET made == get_lidar_make(perform("sensor_model")) IN
        /\ lidar_make' = made
        /\ IF CanUnpack2(made)
           THEN /\ sensor_make' = made.items[1]
                /\ sensor_extension' = made.items[2]
                /\ pc' = "resolve"
                /\ error' = ""
           ELSE /\ pc' = "aborted"
                /\ error' = "ValueError"
                /\ UNCHANGED <<sensor_make, sensor_extension>>
    /\ UNCHANGED <<surroundings, sensor_params_fp, sensor_calib_fp, sensor_correction_fp,
                   sensor_params, nodes, cropbox_parameters, vehicle_info, result>>

\* lines 79-112: resolve the three files, assert the mandatory ones, load the params
ResolveFiles ==
    /\ pc = "resolve"
    /\ LET model == perform("sensor_model")
           params == resolve_params(params_candidate(perform("config_file"), sensor_make, model))
           calib == calib_path(sensor_make, model, sensor_extension)
           correction == resolve_correction(
                            correction_candidate(perform("sensor_correction_file"), sensor_make, model))
       IN
        /\ sensor_params_fp' = params
        /\ sensor_calib_fp' = calib
        /\ sensor_correction_fp' = correction
        /\ error' = assert_mandatory_files(params, calib)
        /\ IF error' # ""
           THEN pc' = "aborted" /\ UNCHANGED sensor_params
           ELSE /\ pc' = "driver"
                /\ sensor_params' = safe_load_params(params)["/**"]["ros__parameters"]
    /\ UNCHANGED <<surroundings, lidar_make, sensor_make, sensor_extension, nodes,
                   cropbox_parameters, vehicle_info, result>>

\* lines 114-145: the driver node
BuildDriver ==
    /\ pc = "driver"
    /\ nodes' = Append(<<>>, driver_node(sensor_make, sensor_params, sensor_calib_fp,
                                         sensor_correction_fp, perform("sensor_model")))
    /\ pc' = "self_crop"
    /\ UNCHANGED <<surroundings, error, lidar_make, sensor_make, sensor_extension,
                   sensor_params_fp, sensor_calib_fp, sensor_correction_fp, sensor_params,
                   cropbox_parameters, vehicle_info, result>>

\* lines 147-170: the crop box dict, the vehicle bounds, the self-crop node
BuildSelfCrop ==
    /\ pc = "self_crop"
    /\ LET info == get_vehicle_info(launch_configurations) IN
        IF info.raises # ""
        THEN /\ pc' = "aborted"
             /\ error' = info.raises
             /\ cropbox_parameters' = cropbox_initial
             /\ UNCHANGED <<vehicle_info, nodes>>
        ELSE /\ vehicle_info' = info.p
             /\ cropbox_parameters' = set_crop_bounds(cropbox_initial, info.p)
             /\ nodes' = Append(nodes, self_crop_node(cropbox_parameters'))
             /\ pc' = "mirror_crop"
             /\ error' = ""
    /\ UNCHANGED <<surroundings, lidar_make, sensor_make, sensor_extension, sensor_params_fp,
                   sensor_calib_fp, sensor_correction_fp, sensor_params, result>>

\* lines 172-192: the mirror bounds overwrite the dict, the mirror-crop node
BuildMirrorCrop ==
    /\ pc = "mirror_crop"
    /\ LET info == get_vehicle_mirror_info(launch_configurations) IN
        IF info.raises # ""
        THEN /\ pc' = "aborted"
             /\ error' = info.raises
             /\ UNCHANGED <<cropbox_parameters, nodes>>
        ELSE /\ cropbox_parameters' = set_crop_bounds(cropbox_parameters, info.p)
             /\ nodes' = Append(nodes, mirror_crop_node(cropbox_parameters'))
             /\ pc' = "filters"
             /\ error' = ""
    /\ UNCHANGED <<surroundings, lidar_make, sensor_make, sensor_extension, sensor_params_fp,
                   sensor_calib_fp, sensor_correction_fp, sensor_params, vehicle_info, result>>

\* lines 194-220: distortion corrector and ring outlier filter
BuildFilters ==
    /\ pc = "filters"
    /\ nodes' = Append(Append(nodes, distortion_corrector_node), ring_outlier_filter_node)
    /\ pc' = "deploy"
    /\ UNCHANGED <<surroundings, error, lidar_make, sensor_make, sensor_extension,
                   sensor_params_fp, sensor_calib_fp, sensor_correction_fp, sensor_params,
                   cropbox_parameters, vehicle_info, result>>

\* lines 222-276: container, loaders, hardware interface; return the three actions
BuildDeployment ==
    /\ pc = "deploy"
    /\ result' = <<container_action(nodes),
                   component_loader_action(nodes),
                   driver_component_loader_action(
                       driver_component(sensor_make, perform("sensor_model"), sensor_calib_fp),
                       launch_configurations)>>
    /\ pc' = "done"
    /\ UNCHANGED <<surroundings, error, lidar_make, sensor_make, sensor_extension,
                   sensor_params_fp, sensor_calib_fp, sensor_correction_fp, sensor_params,
                   nodes, cropbox_parameters, vehicle_info>>

Next ==
    \/ Classify
    \/ ResolveFiles
    \/ BuildDriver
    \/ BuildSelfCrop
    \/ BuildMirrorCrop
    \/ BuildFilters
    \/ BuildDeployment

Spec == Init /\ [][Next]_vars

TypeOK ==
    /\ pc \in {"classify", "resolve", "driver", "self_crop", "mirror_crop", "filters",
               "deploy", "done", "aborted"}
    /\ (error # "") <=> (pc = "aborted")


(***************************************************************************)
(* The classifier on its own: every spelling of every prefix of the base   *)
(* names, classified and unpacked.                                         *)
(***************************************************************************)
InitClassify ==
    /\ \E model \in SensorModels :
          launch_configurations = Context(model, <<>>, <<>>, "True", "false", EmptyDict, DimsB)
    /\ fs = {}
    /\ mirror_yaml = Yaml(EmptyDict)
    /\ pc = "classify"
    /\ error = ""
    /\ LocalsInit

NextClassify == Classify

SpecClassify == InitClassify /\ [][NextClassify]_vars

(***************************************************************************)
(* The vehicle geometry on its own: one installed model with every file    *)
(* present, the vehicle dimensions drawn from a grid.                      *)
(***************************************************************************)
InitVehicle ==
    /\ \E rp \in {EmptyDict} \cup DimsGrid, gparams \in {EmptyDict, DimsB, DimsPartial},
          ld \in {"True", "false"}, upc \in {"false", "true"} :
          launch_configurations = Context(M_Pandar64, <<>>, <<>>, ld, upc, rp, gparams)
    /\ fs = CommonFiles \cup ModelFiles(M_Pandar64)
    /\ mirror_yaml \in MirrorYamls(fs)
    /\ pc = "classify"
    /\ error = ""
    /\ LocalsInit

SpecVehicle == InitVehicle /\ [][Next]_vars


(***************************************************************************)
(* Claims.                                                                 *)
(***************************************************************************)
SensorModel == launch_configurations["sensor_model"]

\* s starts with prefix, letter case ignored
HasPrefixIgnoringCase(s, prefix) ==
    /\ Len(s) >= Len(prefix)
    /\ \A i \in 1..Len(prefix) : s[i] = prefix[i] \/ s[i] = upper_char(prefix[i])

Classified == pc # "classify"

\* C1: get_lidar_make classifies by case-insensitive prefix: "pandar" gives
\* (Hesai, ".csv"); otherwise "hdl", "vlp" or "vls" gives (Velodyne, ".yaml");
\* every other string, the empty and the too short ones included, gives the
\* unrecognised marker, which carries no extension.
C1_Classification ==
    Classified =>
        IF HasPrefixIgnoringCase(SensorModel, STR_pandar)
        THEN lidar_make.tuple /\ lidar_make.items = <<STR_Hesai, STR_csv>>
        ELSE IF \E prefix \in {STR_hdl, STR_vlp, STR_vls} : HasPrefixIgnoringCase(SensorModel, prefix)
        THEN lidar_make.tuple /\ lidar_make.items = <<STR_Velodyne, STR_yaml>>
        ELSE ~lidar_make.tuple /\ lidar_make.items = STR_unrecognized

\* a mixed-case Hesai model has been classified
C1_Witness ==
    /\ Classified
    /\ SensorModel = <<"P", "A", "n", "D", "a", "R", "6">>
    /\ sensor_make = STR_Hesai
    /\ sensor_extension = STR_csv


\* the dimensions get_vehicle_info works from
VehicleDims ==
    IF launch_configurations["ros_params"] # EmptyDict
    THEN launch_configurations["ros_params"]
    ELSE launch_configurations["global_params"]

VehicleInfoComputed == vehicle_info # EmptyDict

\* C2: get_vehicle_info returns minLon = -rearOverhang, maxLon = frontOverhang +
\* wheelBase, minLat = -(wheelTread/2 + rightOverhang), maxLat = wheelTread/2 +
\* leftOverhang, minHeight = 0, maxHeight = vehicleHeight, length and width the
\* sums of their parts; the dimensions 0.5, 0.5, 2.5, 1.5, 0.2, 0.2, 1.8 give
\* -0.5, 3.0, -0.95, 0.95, 0, 1.8 (here in units of 1/200 m).
C2_VehicleInfo ==
    VehicleInfoComputed =>
        LET d == VehicleDims
            v == vehicle_info
        IN  /\ v.min_longitudinal_offset = -d.rear_overhang
            /\ v.max_longitudinal_offset = d.front_overhang + d.wheel_base
            /\ 2 * v.min_lateral_offset = -(d.wheel_tread + 2 * d.right_overhang)
            /\ 2 * v.max_lateral_offset = d.wheel_tread + 2 * d.left_overhang
            /\ v.min_height_offset = 0
            /\ v.max_height_offset = d.vehicle_height
            /\ v.vehicle_length = d.front_overhang + d.wheel_base + d.rear_overhang
            /\ v.vehicle_width = d.wheel_tread + d.left_overhang + d.right_overhang
            /\ (d = DimsA =>
                    /\ v.min_longitudinal_offset = -100
                    /\ v.max_longitudinal_offset = 600
                    /\ v.min_lateral_offset = -190
                    /\ v.max_lateral_offset = 190
                    /\ v.min_height_offset = 0
                    /\ v.max_height_offset = 360)

\* the vehicle of the example has been measured
C2_Witness ==
    /\ pc = "mirror_crop"
    /\ VehicleDims = DimsA
    /\ vehicle_info.min_lateral_offset = -190
    /\ vehicle_info.max_longitudinal_offset = 600

Returned == pc = "done"

\* the topic a node's remappings give to one of its names
Remapped(node, from) ==
    LET i == CHOOSE j \in 1..Len(node.remappings) : node.remappings[j][1] = from
    IN  node.remappings[i][2]

IsRemapped(node, from) == \E j \in 1..Len(node.remappings) : node.remappings[j][1] = from

PluginOrder ==
    <<"DriverRosWrapper",
      "pointcloud_preprocessor::CropBoxFilterComponent",
      "pointcloud_preprocessor::CropBoxFilterComponent",
      "pointcloud_preprocessor::DistortionCorrectorComponent",
      "pointcloud_preprocessor::RingOutlierFilterComponent">>

InputName == <<"", "input", "input", "~/input/pointcloud", "input">>

OutputName == <<"aw_points_ex", "output", "output", "~/output/pointcloud", "output">>

TopicChain ==
    <<"pointcloud_raw_ex", "self_cropped/pointcloud_ex", "mirror_cropped/pointcloud_ex",
      "rectified/pointcloud_ex", "outlier_filtered/pointcloud">>

LaunchDriverFlag == launch_configurations["launch_driver"] \in {"true", "True", "1"}

SharedContainerFlag == launch_configurations["use_pointcloud_container"] \in {"true", "True", "1"}

\* the launch action is carried out by the launch system
Active(action) == evaluate(action.condition, launch_configurations)

\* C3: the emitted topology holds exactly five pipeline nodes in the order
\* driver, self crop, mirror crop, distortion corrector, outlier filter; each
\* node reads the topic the node before it writes, with the topic names
\* pointcloud_raw_ex, self_cropped/pointcloud_ex, mirror_cropped/pointcloud_ex,
\* rectified/pointcloud_ex, outlier_filtered/pointcloud; the hardware
\* interface node is loaded iff launch_driver is true.
C3_Topology ==
    Returned =>
        /\ Len(nodes) = 5
        /\ result[1].composable_node_descriptions = nodes
        /\ result[2].composable_node_descriptions = nodes
        /\ nodes[1].plugin.tail = PluginOrder[1]
        /\ nodes[1].plugin.head \in {STR_Hesai, STR_Velodyne}
        /\ \A i \in 2..5 : nodes[i].plugin = PluginOrder[i]
        /\ nodes[2].name = "crop_box_filter_self"
        /\ nodes[3].name = "crop_box_filter_mirror"
        /\ \A i \in 1..5 : IsRemapped(nodes[i], OutputName[i])
                           /\ Remapped(nodes[i], OutputName[i]) = TopicChain[i]
        /\ \A i \in 2..5 : IsRemapped(nodes[i], InputName[i])
                           /\ Remapped(nodes[i], InputName[i]) = Remapped(nodes[i - 1], OutputName[i - 1])
        /\ Len(result[3].composable_node_descriptions) = 1
        /\ result[3].composable_node_descriptions[1].plugin.tail = "HwInterfaceRosWrapper"
        /\ Active(result[3]) <=> LaunchDriverFlag

\* a topology was returned with the hardware interface switched off
C3_Witness ==
    /\ Returned
    /\ Len(nodes) = 5
    /\ ~LaunchDriverFlag
    /\ ~Active(result[3])
    /\ Remapped(nodes[5], "output") = "outlier_filtered/pointcloud"


\* the files of the launched model, as the installation lays them out
DefaultParamsFile == ModelParamsFile(CatalogEntry(SensorModel))

DefaultCalibFile == ModelCalibFile(CatalogEntry(SensorModel))

DefaultCorrectionFile == ModelCorrectionFile(CatalogEntry(SensorModel))

ConfigFile == launch_configurations["config_file"]

CorrectionFile == launch_configurations["sensor_correction_file"]

\* launch_setup has run its file resolution (to its end or to a failed assert)
Resolved == pc \notin {"classify", "resolve"} /\ lidar_make.tuple

\* C4: with an empty config_file and no model-specific default on disk the
\* params file is <nebula_ros_share>/config/BaseParams.yaml; if that file is
\* missing too, launch_setup fails on the params assertion and returns nothing.
C4_BaseFallback ==
    (Resolved /\ ConfigFile = <<>> /\ DefaultParamsFile \notin fs) =>
        IF BaseParamsFile \in fs
        THEN sensor_params_fp = BaseParamsFile /\ error # "AssertionError: params"
        ELSE pc = "aborted" /\ error = "AssertionError: params" /\ result = <<>>

\* a topology was built from the base params file
C4_Witness ==
    /\ Returned
    /\ ConfigFile = <<>>
    /\ DefaultParamsFile \notin fs
    /\ sensor_params_fp = BaseParamsFile
    /\ sensor_params = [loaded_from |-> BaseParamsFile]

ParamsCandidate == IF ConfigFile = <<>> THEN DefaultParamsFile ELSE ConfigFile

FinalParamsFile == IF ParamsCandidate \in fs THEN ParamsCandidate ELSE BaseParamsFile

CorrectionCandidate == IF CorrectionFile = <<>> THEN DefaultCorrectionFile ELSE CorrectionFile

\* C5: the correction file is optional.  Its candidate is the user path, or
\* <nebula_decoders_share>/calibration/<vendor>/<model>.dat when that is empty;
\* the resolved path is the candidate when it exists and empty otherwise, and
\* file resolution fails only when the params file or the calibration file is
\* missing, whatever the correction file.
C5_CorrectionOptional ==
    Resolved =>
        /\ sensor_correction_fp = (IF CorrectionCandidate \in fs THEN CorrectionCandidate ELSE <<>>)
        /\ (FinalParamsFile \in fs /\ DefaultCalibFile \in fs) =>
                error \notin {"AssertionError: params", "AssertionError: calib"}
        /\ Len(nodes) >= 1 => parameters_of(nodes[1], 2)["correction_file"] = sensor_correction_fp

\* a topology was built with no correction file at all
C5_Witness ==
    /\ Returned
    /\ CorrectionFile = <<>>
    /\ DefaultCorrectionFile \notin fs
    /\ sensor_correction_fp = <<>>
    /\ parameters_of(nodes[1], 2)["correction_file"] = <<>>

Recognized ==
    \/ HasPrefixIgnoringCase(SensorModel, STR_pandar)
    \/ \E prefix \in {STR_hdl, STR_vlp, STR_vls} : HasPrefixIgnoringCase(SensorModel, prefix)

\* C6: startup is all or nothing.  An unrecognised model, a missing final
\* params file or a missing calibration file aborts launch_setup, and an
\* aborted launch_setup returns no action and no node; a returned topology
\* implies a recognised model and both mandatory files on disk.
C6_AllOrNothing ==
    /\ (~Recognized /\ Classified) => pc = "aborted"
    /\ (Recognized /\ Resolved /\ (FinalParamsFile \notin fs \/ DefaultCalibFile \notin fs)) =>
            pc = "aborted"
    /\ pc = "aborted" => result = <<>>
    /\ result # <<>> => Returned
    /\ Returned =>
            /\ Recognized
            /\ Len(result) = 3
            /\ sensor_params_fp = FinalParamsFile
            /\ sensor_params_fp \in fs
            /\ sensor_calib_fp = DefaultCalibFile
            /\ sensor_calib_fp \in fs

\* the params file is there, the calibration file is not: nothing is returned
C6_Witness ==
    /\ pc = "aborted"
    /\ Recognized
    /\ FinalParamsFile \in fs
    /\ DefaultCalibFile \notin fs
    /\ error = "AssertionError: calib"
    /\ result = <<>>

ParamsCandidates3 ==
    (IF ConfigFile = <<>> THEN <<>> ELSE <<ConfigFile>>) \o <<DefaultParamsFile, BaseParamsFile>>

FirstExisting(paths) ==
    paths[CHOOSE i \in 1..Len(paths) : paths[i] \in fs /\ \A j \in 1..(i - 1) : paths[j] \notin fs]

\* C7 as claimed: the resolved params path is the first of the user path, the
\* model-specific default and BaseParams.yaml that exists on disk.
C7_FirstOfThree ==
    (Resolved /\ \E i \in 1..Len(ParamsCandidates3) : ParamsCandidates3[i] \in fs) =>
        sensor_params_fp = FirstExisting(ParamsCandidates3)

\* C7: the resolved params path is the first existing one of two candidates:
\* the user path when one is given, else the model-specific default; then
\* BaseParams.yaml.  With a user path given the model-specific default is not
\* tried.  When neither exists the params assertion fails.
C7_FirstOfTwo ==
    Resolved =>
        /\ sensor_params_fp = (IF ParamsCandidate \in fs THEN ParamsCandidate ELSE BaseParamsFile)
        /\ (ParamsCandidate \notin fs /\ BaseParamsFile \notin fs) => error = "AssertionError: params"

\* a missing user path fell through to the base file past an existing model default
C7_Witness ==
    /\ Returned
    /\ ConfigFile = UserConfigFile
    /\ UserConfigFile \notin fs
    /\ DefaultParamsFile \in fs
    /\ sensor_params_fp = BaseParamsFile


CropKeys == {"min_x", "max_x", "min_y", "max_y", "min_z", "max_z"}

\* the six bounds of a crop node, as its parameter set holds them now
BoundsOf(node) == [k \in CropKeys |-> parameters_of(node, 1)[k]]

\* offsets laid out as crop bounds: longitudinal to x, lateral to y, height to z
AsBounds(info) ==
    [k \in CropKeys |->
        CASE k = "min_x" -> info["min_longitudinal_offset"]
          [] k = "max_x" -> info["max_longitudinal_offset"]
          [] k = "min_y" -> info["min_lateral_offset"]
          [] k = "max_y" -> info["max_lateral_offset"]
          [] k = "min_z" -> info["min_height_offset"]
          [] k = "max_z" -> info["max_height_offset"]]

MirrorOffsets == mirror_yaml["/**"]["ros__parameters"]

\* C8: in every emitted topology both crop nodes, crop_box_filter_self and
\* crop_box_filter_mirror, have negative = true in their parameter set.
C8_NegativeCrop ==
    /\ Len(nodes) >= 2 => parameters_of(nodes[2], 1)["negative"] = TRUE
    /\ Len(nodes) >= 3 => parameters_of(nodes[3], 1)["negative"] = TRUE
    /\ Returned =>
        \A k \in 1..2 : \A i \in 2..3 :
            parameters_of(result[k].composable_node_descriptions[i], 1)["negative"] = TRUE

\* a returned topology whose two crop nodes carry different boxes
C8_Witness ==
    /\ Returned
    /\ nodes[2].name = "crop_box_filter_self"
    /\ nodes[3].name = "crop_box_filter_mirror"
    /\ parameters_of(nodes[2], 1)["negative"] = TRUE
    /\ parameters_of(nodes[3], 1)["negative"] = TRUE
    /\ BoundsOf(nodes[2]) # BoundsOf(nodes[3])

ContainerNameTarget == [object |-> "", substitution |-> LaunchConfiguration("container_name")]

DedicatedContainerTarget == [object |-> "container", substitution |-> LaunchConfiguration("")]

\* C9: exactly one deployment is active.  With use_pointcloud_container false
\* the dedicated container with the five nodes is started and the loader is
\* off; with it true the five nodes are loaded into the container named
\* container_name and no container is started.  The hardware interface loader
\* targets the active one: the container object, or container_name.
C9_OneDeployment ==
    Returned =>
        /\ result[1].action = "ComposableNodeContainer"
        /\ result[2].action = "LoadComposableNodes"
        /\ Active(result[1]) # Active(result[2])
        /\ Active(result[1]) <=> ~SharedContainerFlag
        /\ Active(result[2]) <=> SharedContainerFlag
        /\ Len(result[1].composable_node_descriptions) = 5
        /\ result[2].composable_node_descriptions = result[1].composable_node_descriptions
        /\ result[2].target_container = ContainerNameTarget
        /\ result[3].target_container =
              (IF SharedContainerFlag THEN ContainerNameTarget ELSE DedicatedContainerTarget)

\* the shared container is in use and the hardware interface goes into it
C9_Witness ==
    /\ Returned
    /\ SharedContainerFlag
    /\ LaunchDriverFlag
    /\ ~Active(result[1])
    /\ Active(result[2])
    /\ Active(result[3])
    /\ result[3].target_container = ContainerNameTarget

\* C10: the two crop nodes carry independent bounds.  The self-crop node's
\* box is the vehicle's offsets from get_vehicle_info and stays so after the
\* shared dict is overwritten; the mirror-crop node's box is the offsets of
\* the mirror parameter file.
C10_IndependentBounds ==
    /\ Len(nodes) >= 2 => BoundsOf(nodes[2]) = AsBounds(vehicle_info)
    /\ Len(nodes) >= 3 => BoundsOf(nodes[3]) = AsBounds(MirrorOffsets)
    /\ Len(nodes) >= 2 =>
            /\ 2 * BoundsOf(nodes[2])["min_y"] = -(VehicleDims.wheel_tread + 2 * VehicleDims.right_overhang)
            /\ BoundsOf(nodes[2])["max_x"] = VehicleDims.front_overhang + VehicleDims.wheel_base

\* the dict now holds the mirror box, the self-crop node still the vehicle box
C10_Witness ==
    /\ Returned
    /\ AsBounds(vehicle_info) # AsBounds(MirrorOffsets)
    /\ [k \in CropKeys |-> cropbox_parameters[k]] = AsBounds(MirrorOffsets)
    /\ BoundsOf(nodes[2]) = AsBounds(vehicle_info)
    /\ BoundsOf(nodes[3]) = AsBounds(MirrorOffsets)

====
